---- MODULE Spec2Model ----
(***************************************************************************)
(* Model of the EcoBot chat proxy (src/server.js, the earlier handler in   *)
(* src/unnamed/part_000) and of its React client                           *)
(* (src/my-chatbot-app/src/App.jsx).                                       *)
(*                                                                         *)
(* A JavaScript string is a sequence of one-character strings, so that     *)
(* split, trim, join, toLowerCase and the intent pattern are computed as   *)
(* the code computes them.                                                 *)
(***************************************************************************)
EXTENDS Integers, Sequences, FiniteSets, TLC

VARIABLES
    \* ---- one POST /api/chat request on the server
    variant,        \* which handler serves: "keyword" (server.js) or "clean" (part_000:1-146)
    env,            \* process.env: which credentials are configured
    query,          \* req.body.query
    includeImage,   \* req.body.includeImage
    pc,             \* the await the handler is suspended at
    geoData,        \* the geocoding result kept across the second await
    fetchedAQI,     \* the handler's fetchedAQI
    parsed,         \* what the handler derived from the model output
    searchTerm,     \* the term put in the image-search URL
    calls,          \* the upstream calls of this request, in order
    responses,      \* what was written to res, in order
    \* ---- the model-output -> server -> client text pipeline
    emitted,        \* what the language model emitted
    wire,           \* the handler's answer and suggestion segment, and the response text
    shown,          \* what the client derived from the response text
    \* ---- the chat client
    messages,       \* useState messages
    isLoading,      \* useState isLoading
    inputValue,     \* useState inputValue
    inflight,       \* handleSend calls suspended at await fetchBotResponse
    fetches         \* number of fetch() calls issued for each handleSend call

serverVars == <<variant, env, query, includeImage, pc, geoData, fetchedAQI,
                parsed, searchTerm, calls, responses>>
pipeVars   == <<emitted, wire, shown>>
clientVars == <<messages, isLoading, inputValue, inflight, fetches>>
vars       == <<serverVars, pipeVars, clientVars>>

(***************************************************************************)
(* Bounds of the model.                                                    *)
(***************************************************************************)
MaxRawLen == 4      \* longest free-form model output enumerated
MaxSegLen == 2      \* longest answer / suggestion of a well-formed output
MaxSug    == 2      \* most suggestions of a well-formed output
MaxSends  == 2      \* most handleSend calls in one client run

(***************************************************************************)
(* JavaScript values and strings.                                          *)
(***************************************************************************)
\* the JS value undefined where a string is expected (a missing field): a
\* one-element sequence that no string of characters equals
Undefined == <<"undefined">>

WhiteSpace == {" ", "\t", "\n"}

UpperCase == <<"A","B","C","D","E","F","G","H","I","J","K","L","M",
               "N","O","P","Q","R","S","T","U","V","W","X","Y","Z">>
LowerCase == <<"a","b","c","d","e","f","g","h","i","j","k","l","m",
               "n","o","p","q","r","s","t","u","v","w","x","y","z">>

Range(s) == {s[i] : i \in DOMAIN s}

IsLetter(c) == c \in Range(UpperCase) \cup Range(LowerCase)

\* String.prototype.toLowerCase, one character
LowerChar(c) ==
    IF c \in Range(UpperCase)
    THEN LowerCase[CHOOSE i \in DOMAIN UpperCase : UpperCase[i] = c]
    ELSE c

\* String.prototype.toLowerCase
ToLowerCase(s) == [i \in DOMAIN s |-> LowerChar(s[i])]

\* s.startsWith(d)
StartsWith(s, d) == Len(s) >= Len(d) /\ SubSeq(s, 1, Len(d)) = d

RECURSIVE SplitFrom(_, _, _)
SplitFrom(s, d, cur) ==
    IF s = <<>> THEN <<cur>>
    ELSE IF StartsWith(s, d)
         THEN <<cur>> \o SplitFrom(SubSeq(s, Len(d) + 1, Len(s)), d, <<>>)
         ELSE SplitFrom(Tail(s), d, Append(cur, Head(s)))

\* String.prototype.split with a non-empty separator d: cut at every
\* occurrence of d found scanning left to right, occurrences do not overlap
Split(s, d) == SplitFrom(s, d, <<>>)

RECURSIVE TrimStart(_)
TrimStart(s) ==
    IF s # <<>> /\ Head(s) \in WhiteSpace THEN TrimStart(Tail(s)) ELSE s

RECURSIVE TrimEnd(_)
TrimEnd(s) ==
    IF s # <<>> /\ s[Len(s)] \in WhiteSpace
    THEN TrimEnd(SubSeq(s, 1, Len(s) - 1)) ELSE s

\* String.prototype.trim
Trim(s) == TrimEnd(TrimStart(s))

RECURSIVE Join(_, _)
\* Array.prototype.join
Join(ws, sep) ==
    IF ws = <<>> THEN <<>>
    ELSE IF Len(ws) = 1 THEN ws[1]
    ELSE ws[1] \o sep \o Join(Tail(ws), sep)

\* a JS string (or undefined) used as a condition: truthy unless empty
Truthy(v) == v # Undefined /\ v # <<>>

\* parts[i] of a JS array (0-based): undefined past the end
At(parts, i) == IF i + 1 <= Len(parts) THEN parts[i + 1] ELSE Undefined

\* all strings over alphabet A of length at most n
StringsUpTo(A, n) == UNION {[1..k -> A] : k \in 0..n}

Delim == <<"|", "|">>
Pipe  == <<"|">>
Space == <<" ">>

(***************************************************************************)
(* The handler's parse of the model output and the client's parse of the   *)
(* response text.                                                          *)
(***************************************************************************)
Apology ==
    <<"S","o","r","r","y",","," ","I"," ","c","o","u","l","d","n","'",
      "t"," ","g","e","n","e","r","a","t","e"," ","a","n"," ","a","n",
      "s","w","e","r",".">>

Nature ==
    <<"N","a","t","u","r","e">>

UnexpectedResponse ==
    <<"U","n","e","x","p","e","c","t","e","d"," ","r","e","s","p","o",
      "n","s","e",".">>

ConnectionFailed ==
    <<"C","o","n","n","e","c","t","i","o","n"," ","f","a","i","l","e",
      "d",".">>

\* ParseModelOutput with a defect: the suggestions are read from parts[1],
\* as in the two-segment convention of the earlier handler
ParseModelOutput_SuggestionsAt1(rawText) ==
    LET parts == Split(rawText, Delim) IN
    [ textResponse   |-> IF Truthy(At(parts, 0)) THEN Trim(At(parts, 0)) ELSE Apology,
      imageKeyword   |-> IF Truthy(At(parts, 1)) /\ Len(Trim(At(parts, 1))) > 0
                         THEN Trim(At(parts, 1)) ELSE Nature,
      suggestionsRaw |-> IF Truthy(At(parts, 1)) THEN Trim(At(parts, 1)) ELSE <<>> ]

\* server.js: parts, textResponse, imageKeyword, suggestionsRaw
ParseModelOutput(rawText) ==
    LET parts == Split(rawText, Delim) IN
    [ textResponse   |-> IF Truthy(At(parts, 0)) THEN Trim(At(parts, 0)) ELSE Apology,
      imageKeyword   |-> IF Truthy(At(parts, 1)) /\ Len(Trim(At(parts, 1))) > 0
                         THEN Trim(At(parts, 1)) ELSE Nature,
      suggestionsRaw |-> IF Truthy(At(parts, 2)) THEN Trim(At(parts, 2)) ELSE <<>> ]

\* server.js: frontendResponseText
FrontendResponseText(p) == p.textResponse \o Delim \o p.suggestionsRaw

\* App.jsx fetchBotResponse, the branch taken for a truthy result.response
ParseBotResponse(response) ==
    LET parts == Split(response, Delim) IN
    [ text        |-> Trim(At(parts, 0)),
      suggestions |-> IF Truthy(At(parts, 1))
                      THEN LET ss == Split(At(parts, 1), Pipe)
                           IN  [i \in DOMAIN ss |-> Trim(ss[i])]
                      ELSE <<>> ]

(***************************************************************************)
(* The text pipeline: a model output goes through the handler's parse and  *)
(* reassembly, and the response text through the client's parse.           *)
(***************************************************************************)
NoOutput == [form |-> "none", answer |-> <<>>, keyword |-> <<>>, sugs |-> <<>>,
             text |-> <<>>]
NoWire   == [sent |-> FALSE, textResponse |-> <<>>, suggestionsRaw |-> <<>>,
             response |-> <<>>]
NoShown  == [ready |-> FALSE, text |-> <<>>, suggestions |-> <<>>]

\* a non-blank answer or suggestion without the pipe character
Words == {w \in StringsUpTo({"a", " "}, MaxSegLen) : Trim(w) # <<>>}

\* image keywords: a plain one, one padded with white space, an empty one
Keywords == { <<"k">>, <<" ", "k", "w", " ">>, <<>> }

SugLists == UNION {[1..k -> Words] : k \in 1..MaxSug}

\* any text at all: the model is not bound to the format
FreeOutputs ==
    { [form |-> "free", answer |-> <<>>, keyword |-> <<>>, sugs |-> <<>>, text |-> t]
        : t \in StringsUpTo({"a", " ", "|"}, MaxRawLen) }

\* server.js systemInstruction: ANSWER_TEXT||IMAGE_KEYWORD||S1|S2|S3
ThreeSegmentOutputs ==
    { [form |-> "three", answer |-> a, keyword |-> k, sugs |-> ss,
       text |-> a \o Delim \o k \o Delim \o Join(ss, Pipe)]
        : a \in Words, k \in Keywords, ss \in SugLists }

\* part_000 systemInstruction: answer||S1|S2|S3
TwoSegmentOutputs ==
    { [form |-> "two", answer |-> a, keyword |-> <<>>, sugs |-> ss,
       text |-> a \o Delim \o Join(ss, Pipe)]
        : a \in Words, ss \in SugLists }

ModelOutputs == FreeOutputs \cup ThreeSegmentOutputs \cup TwoSegmentOutputs

\* server.js:107-128 applied to the emitted text
PipeServer ==
    /\ emitted.form # "none"
    /\ ~wire.sent
    /\ LET p == ParseModelOutput(emitted.text) IN
       wire' = [sent |-> TRUE, textResponse |-> p.textResponse,
                suggestionsRaw |-> p.suggestionsRaw,
                response |-> FrontendResponseText(p)]
    /\ UNCHANGED <<emitted, shown, serverVars, clientVars>>

\* App.jsx:98-105 applied to the response text
PipeClient ==
    /\ wire.sent
    /\ ~shown.ready
    /\ shown' = [ready |-> TRUE] @@ ParseBotResponse(wire.response)
    /\ UNCHANGED <<emitted, wire, serverVars, clientVars>>

(***************************************************************************)
(* The air-quality intent pattern                                          *)
(*   /(?:aqi|pollution)\s+(?:in\s+)?([a-zA-Z\s]+)/i                        *)
(* matched as a backtracking matcher does: leftmost start, every \s+ as    *)
(* long as the rest of the pattern allows, the group as long as possible.  *)
(***************************************************************************)
Max(S) == CHOOSE x \in S : \A y \in S : y <= x
Min(S) == CHOOSE x \in S : \A y \in S : x <= y

CityClass == Range(UpperCase) \cup Range(LowerCase) \cup WhiteSpace

\* the length of the longest run of characters of C in q from position p
RunLen(q, p, C) ==
    IF p < 1 \/ p > Len(q) THEN 0
    ELSE Max({n \in 0..(Len(q) - p + 1) : \A i \in p..(p + n - 1) : q[i] \in C})

\* q has word w (lower case) at position p, ignoring case
HasAt(q, p, w) ==
    /\ p >= 1
    /\ p + Len(w) - 1 <= Len(q)
    /\ ToLowerCase(SubSeq(q, p, p + Len(w) - 1)) = w

\* the position after (?:aqi|pollution) matched at p, 0 when neither is there
KeywordEnd(q, p) ==
    IF HasAt(q, p, <<"a","q","i">>) THEN p + 3
    ELSE IF HasAt(q, p, <<"p","o","l","l","u","t","i","o","n">>) THEN p + 9
    ELSE 0

\* where the group starts when (?:in\s+)?([a-zA-Z\s]+) is matched at r, else 0
GroupStart(q, r) ==
    LET m  == IF HasAt(q, r, <<"i","n">>) THEN RunLen(q, r + 2, WhiteSpace) ELSE 0
        js == {j \in 1..m : r + 2 + j <= Len(q) /\ q[r + 2 + j] \in CityClass}
    IN  IF js # {} THEN r + 2 + Max(js)
        ELSE IF r >= 1 /\ r <= Len(q) /\ q[r] \in CityClass THEN r
        ELSE 0

\* where the group starts when the whole pattern is matched at p, else 0
MatchAt(q, p) ==
    LET e  == KeywordEnd(q, p)
        w  == IF e = 0 THEN 0 ELSE RunLen(q, e, WhiteSpace)
        ks == {k \in 1..w : GroupStart(q, e + k) # 0}
    IN  IF ks = {} THEN 0 ELSE GroupStart(q, e + Max(ks))

\* query.match(...): aqiMatch[1], or Undefined when there is no match
AqiMatch(q) ==
    LET ps == {p \in 1..Len(q) : MatchAt(q, p) # 0} IN
    IF ps = {} THEN Undefined
    ELSE LET g == MatchAt(q, Min(ps))
         IN  SubSeq(q, g, g + RunLen(q, g, CityClass) - 1)

(***************************************************************************)
(* The helpers of the handlers.                                            *)
(***************************************************************************)
stopWords ==
    { <<"g","i","v","e">>,
      <<"m","e">>,
      <<"s","h","o","w">>,
      <<"a","n">>,
      <<"i","m","a","g","e">>,
      <<"o","f">>,
      <<"p","i","c","t","u","r","e">>,
      <<"p","h","o","t","o">>,
      <<"i","m","a","g","e","s">>,
      <<"p","i","c","t","u","r","e","s">>,
      <<"p","h","o","t","o","s">>,
      <<"t","h","e">>,
      <<"a">>,
      <<"a","q","i">>,
      <<"p","o","l","l","u","t","i","o","n">>,
      <<"i","n">> }

RECURSIVE DropStopWords(_)
\* words.filter(word => !stopWords.includes(word.toLowerCase()))
DropStopWords(words) ==
    IF words = <<>> THEN <<>>
    ELSE (IF ToLowerCase(Head(words)) \in stopWords THEN <<>> ELSE <<Head(words)>>)
         \o DropStopWords(Tail(words))

\* part_000: cleanQueryForImage
cleanQueryForImage(q) ==
    LET keywords == DropStopWords(Split(q, Space)) IN
    IF Len(keywords) > 0 THEN Join(keywords, Space) ELSE q

\* aqiLabels[aqiIndex]
AqiLabel(i) ==
    CASE i = 1 -> "Good"
      [] i = 2 -> "Fair"
      [] i = 3 -> "Moderate"
      [] i = 4 -> "Poor"
      [] i = 5 -> "Very Poor"
      [] OTHER -> "undefined"

UndefinedText ==
    <<"u","n","d","e","f","i","n","e","d">>

PollutionIn ==
    <<"P","o","l","l","u","t","i","o","n"," ","i","n"," ">>

\* `${v}` in a template literal
TemplateText(v) == IF v = Undefined THEN UndefinedText ELSE v

\* QueryMissing with a defect: only undefined is rejected, the empty string
\* passes validation
QueryMissing_OnlyUndefined(q) == q = Undefined

\* !query
QueryMissing(q) == ~Truthy(q)

\* ShouldFetchImage with a defect: the snapshot no longer forces an image
ShouldFetchImage_OnlyFlag(inc, aqi) == inc = "true"

\* includeImage || fetchedAQI
ShouldFetchImage(inc, aqi) == inc = "true" \/ aqi.got

\* PromptThrows with a defect: server.js also reads the pollutant components
\* into the prompt
PromptThrows_AnyVariant(v, aqi) == aqi.components = "absent"

\* building finalPrompt throws: part_000 reads fetchedAQI.components.pm2_5,
\* a TypeError when the air-quality payload carried no components; the
\* prompt of server.js reads city, index and status only
PromptThrows(v, aqi) == v = "clean" /\ aqi.components = "absent"

(***************************************************************************)
(* One POST /api/chat request.  Each action is the handler's code from one *)
(* await to the next; the result of the awaited upstream call is its       *)
(* parameter.                                                              *)
(***************************************************************************)
Variants == {"keyword", "clean"}    \* server.js, part_000:1-146

Queries ==
    { Undefined,
      <<>>,
      <<"h","i">>,
      <<"t","h","e"," ">>,
      <<"s","h","o","w"," ","m","e">>,
      <<"a","q","i"," ","x">>,
      <<"A","Q","I"," ","i","n"," ","x">> }

IncludeImageValues == {"true", "false", "undefined"}

\* what the language model may answer in a request
RawTexts ==
    { <<"a","|","|","k","|","|","s","|","t">>,
      <<"a","|","|","s","|","t">>,
      <<"a">>,
      <<" ","|","|","k","|","|","s">>,
      <<>> }

\* geocoding: the fetch rejects, the body is no JSON, is null, is an error
\* object of a non-success status, is [], is [null], is [{lat, lon, name}]
GeoOutcomes ==
    { [kind |-> k, name |-> <<>>]
        : k \in {"netErr", "badJson", "null", "errObj", "empty", "nullEntry"} }
    \cup { [kind |-> "hit", name |-> n] : n \in {<<"X">>, <<>>, Undefined} }

\* air quality: the fetch rejects, the body is no JSON, has no list, an empty
\* list, an entry without main, or main.aqi with or without components
AqOutcomes ==
    { [kind |-> k, aqi |-> 0, components |-> "none"]
        : k \in {"netErr", "badJson", "noList", "emptyList", "noMain"} }
    \cup { [kind |-> "ok", aqi |-> i, components |-> c]
             : i \in {3, 6}, c \in {"present", "absent"} }

\* the model call rejects, response.text() throws, or a text comes back
LlmOutcomes ==
    { [kind |-> k, text |-> <<>>] : k \in {"reject", "textThrows"} }
    \cup { [kind |-> "ok", text |-> t] : t \in RawTexts }

\* image search: the fetch rejects, the status is not ok, the body is no JSON,
\* is null, has no photos, has none, photos[0] has no src, src has no medium,
\* or a URL comes back
ImgOutcomes ==
    {"netErr", "notOk", "badJson", "nullBody", "noPhotos", "emptyPhotos",
     "noSrc", "noMedium", "url"}

ImageUrl == "https://images.pexels.com/photos/1/medium.jpeg"

\* what fetchEnvironmentalImage returns for an outcome of its fetch
ImageOf(i) ==
    IF i = "url" THEN ImageUrl ELSE IF i = "noMedium" THEN "undefined" ELSE "null"

NoSnapshot == [got |-> FALSE, city |-> <<>>, index |-> 0, status |-> "",
               components |-> "none"]
NoGeo      == [kind |-> "none", name |-> <<>>]
NoParse    == [done |-> FALSE, textResponse |-> <<>>, imageKeyword |-> <<>>,
               suggestionsRaw |-> <<>>, responseText |-> <<>>]

Ev(c, e, r) == [call |-> c, ev |-> e, result |-> r]

Reply200(text, image) ==
    [status |-> 200, response |-> text, image |-> image, error |-> ""]
Reply400 ==
    [status |-> 400, response |-> <<>>, image |-> "", error |-> "Query is required"]
Reply500 ==
    [status |-> 500, response |-> <<>>, image |-> "",
     error |-> "Failed to generate response"]

\* the handler's locals after the model answered rawText
Derived(v, rawText) ==
    IF v = "keyword"
    THEN LET p == ParseModelOutput(rawText) IN
         [done |-> TRUE] @@ p @@ [responseText |-> FrontendResponseText(p)]
    ELSE [done |-> FALSE, textResponse |-> rawText, imageKeyword |-> <<>>,
          suggestionsRaw |-> <<>>, responseText |-> rawText]

\* the term that goes into the image-search URL
SearchTermOf(v, q, aqi, p) ==
    IF v = "keyword" THEN p.imageKeyword
    ELSE cleanQueryForImage(IF aqi.got THEN PollutionIn \o TemplateText(aqi.city)
                            ELSE q)

\* app.post('/api/chat') up to its first await (or its 400 response)
Post(q, inc) ==
    /\ pc = "listening"
    /\ query' = q
    /\ includeImage' = inc
    /\ IF QueryMissing(q)
       THEN /\ responses' = Append(responses, Reply400)
            /\ pc' = "done"
            /\ calls' = calls
       ELSE /\ responses' = responses
            /\ IF AqiMatch(q) # Undefined /\ env.weather
               THEN /\ pc' = "geo"
                    /\ calls' = Append(calls, Ev("geo", "start", ""))
               ELSE /\ pc' = "llm"
                    /\ calls' = Append(calls, Ev("llm", "start", ""))
    /\ UNCHANGED <<variant, env, geoData, fetchedAQI, parsed, searchTerm>>
    /\ UNCHANGED <<pipeVars, clientVars>>

\* fetchRealTimeAQI after the geocoding fetch
GeoReturn(g) ==
    /\ pc = "geo"
    /\ geoData' = g
    /\ IF g.kind = "hit"
       THEN /\ pc' = "aq"
            /\ calls' = calls \o <<Ev("geo", "end", g.kind), Ev("aq", "start", "")>>
       ELSE /\ pc' = "llm"
            /\ calls' = calls \o <<Ev("geo", "end", g.kind), Ev("llm", "start", "")>>
    /\ UNCHANGED <<variant, env, query, includeImage, fetchedAQI, parsed,
                   searchTerm, responses>>
    /\ UNCHANGED <<pipeVars, clientVars>>

\* fetchRealTimeAQI after the air-quality fetch, then the handler up to the
\* model call
AqReturn(a) ==
    /\ pc = "aq"
    /\ LET snap == IF a.kind = "ok"
                   THEN [got |-> TRUE, city |-> geoData.name, index |-> a.aqi,
                         status |-> AqiLabel(a.aqi), components |-> a.components]
                   ELSE NoSnapshot
       IN  /\ fetchedAQI' = snap
           /\ IF snap.got /\ PromptThrows(variant, snap)
              THEN /\ pc' = "done"
                   /\ calls' = Append(calls, Ev("aq", "end", a.kind))
                   /\ responses' = Append(responses, Reply500)
              ELSE /\ pc' = "llm"
                   /\ calls' = calls \o <<Ev("aq", "end", a.kind),
                                          Ev("llm", "start", "")>>
                   /\ responses' = responses
    /\ UNCHANGED <<variant, env, query, includeImage, geoData, parsed, searchTerm>>
    /\ UNCHANGED <<pipeVars, clientVars>>

\* the handler after the model call: parse, then the image search or the
\* response
LlmReturn(l) ==
    /\ pc = "llm"
    /\ IF l.kind # "ok"
       THEN /\ pc' = "done"
            /\ calls' = Append(calls, Ev("llm", "end", l.kind))
            /\ responses' = Append(responses, Reply500)
            /\ UNCHANGED <<parsed, searchTerm>>
       ELSE LET p     == Derived(variant, l.text)
                after == calls \o <<Ev("llm", "end", "ok")>>
                             \o (IF p.done THEN <<Ev("parse", "end", "")>> ELSE <<>>)
            IN  /\ parsed' = p
                /\ IF ~ShouldFetchImage(includeImage, fetchedAQI)
                   THEN /\ pc' = "done"
                        /\ calls' = after
                        /\ responses' = Append(responses, Reply200(p.responseText, "null"))
                        /\ searchTerm' = searchTerm
                   ELSE IF ~env.pexels
                   THEN /\ pc' = "done"
                        /\ calls' = Append(after, Ev("img", "call", ""))
                        /\ responses' = Append(responses, Reply200(p.responseText, "null"))
                        /\ searchTerm' = searchTerm
                   ELSE /\ pc' = "img"
                        /\ calls' = after \o <<Ev("img", "call", ""), Ev("img", "start", "")>>
                        /\ responses' = responses
                        /\ searchTerm' = SearchTermOf(variant, query, fetchedAQI, p)
    /\ UNCHANGED <<variant, env, query, includeImage, geoData, fetchedAQI>>
    /\ UNCHANGED <<pipeVars, clientVars>>

\* fetchEnvironmentalImage after its fetch, then res.json
ImgReturn(i) ==
    /\ pc = "img"
    /\ pc' = "done"
    /\ calls' = Append(calls, Ev("img", "end", i))
    /\ responses' = Append(responses, Reply200(parsed.responseText, ImageOf(i)))
    /\ UNCHANGED <<variant, env, query, includeImage, geoData, fetchedAQI, parsed,
                   searchTerm>>
    /\ UNCHANGED <<pipeVars, clientVars>>

(***************************************************************************)
(* The chat client (App.jsx).  A handleSend call is numbered when it       *)
(* starts; the field req of a message is that number, kept to tell which   *)
(* call a message belongs to (0 for the greeting).  fetches[n] lists the   *)
(* outcomes of the fetch() calls that call n has seen settle.              *)
(***************************************************************************)
GreetingText ==
      <<"H","i","!"," ","I","'","m"," ","E","c","o","B","o","t","."," ",
        "T","y","p","e"," ","o","r"," ","u","s","e"," ","t","h","e"," ",
        "m","i","c","r","o","p","h","o","n","e"," ","t","o"," ","a","s",
        "k"," ","a","b","o","u","t"," ","t","h","e"," ","e","n","v","i",
        "r","o","n","m","e","n","t","!">>

GreetingSuggestions ==
    <<
      <<"W","h","a","t"," ","i","s"," ","p","o","l","l","u","t","i","o",
        "n","?">>,
      <<"A","Q","I"," ","i","n"," ","D","e","l","h","i">>,
      <<"S","a","v","e"," ","w","a","t","e","r"," ","t","i","p","s">>
    >>

Greeting ==
    [sender |-> "bot", text |-> GreetingText, image |-> "null",
     suggestions |-> GreetingSuggestions, isError |-> FALSE, req |-> 0]

\* what the user may type into the input
InputTexts == { <<>>, <<"h","i">> }

\* what may come back to the fetch of a non-blank query: 200 with a response
\* text, 200 with an empty one, a 500, or no answer at all
FetchOutcomes ==
    { [kind |-> "ok", response |-> r, image |-> "null"]
        : r \in { <<"a","|","|","s","|","t">>, <<"a","|","|">> } }
    \cup { [kind |-> k, response |-> <<>>, image |-> "null"]
             : k \in {"noResponse", "status500", "netErr"} }

\* BotResponseOf with a defect: response.ok is not checked, so the error body
\* of a 5xx is read like an answer and has no response field
BotResponseOf_NoOkCheck(o) ==
    IF o.kind = "ok" /\ Truthy(o.response)
    THEN ParseBotResponse(o.response) @@ [image |-> o.image, isError |-> FALSE]
    ELSE IF o.kind \in {"noResponse", "ok", "status500"}
    THEN [text |-> UnexpectedResponse, image |-> "undefined", suggestions |-> <<>>,
          isError |-> TRUE]
    ELSE [text |-> ConnectionFailed, image |-> "undefined", suggestions |-> <<>>,
          isError |-> TRUE]

\* fetchBotResponse: what it returns for the outcome of its one fetch
BotResponseOf(o) ==
    IF o.kind = "ok" /\ Truthy(o.response)
    THEN ParseBotResponse(o.response) @@ [image |-> o.image, isError |-> FALSE]
    ELSE IF o.kind \in {"noResponse", "ok"}
    THEN [text |-> UnexpectedResponse, image |-> "undefined", suggestions |-> <<>>,
          isError |-> TRUE]
    ELSE [text |-> ConnectionFailed, image |-> "undefined", suggestions |-> <<>>,
          isError |-> TRUE]

\* the handleSend calls started so far
Started == {n \in DOMAIN fetches : \E m \in Range(messages) : m.req = n}

\* handleSend up to its await: the user message, the loading flag, the fetch
handleSend(text) ==
    /\ Trim(text) # <<>>
    /\ Cardinality(Started) < MaxSends
    /\ LET n == Cardinality(Started) + 1 IN
       /\ messages' = Append(messages,
              [sender |-> "user", text |-> text, image |-> "undefined",
               suggestions |-> <<>>, isError |-> FALSE, req |-> n])
       /\ inflight' = inflight \cup {[req |-> n, query |-> text]}
    /\ inputValue' = <<>>
    /\ isLoading' = TRUE
    /\ UNCHANGED fetches
    /\ UNCHANGED <<serverVars, pipeVars>>

\* the input's onChange
SetInput(v) ==
    /\ v # inputValue
    /\ inputValue' = v
    /\ UNCHANGED <<messages, isLoading, inflight, fetches>>
    /\ UNCHANGED <<serverVars, pipeVars>>

\* handleSubmit: the form is submitted through its Send button, which is
\* disabled while isLoading
Submit ==
    /\ ~isLoading
    /\ handleSend(inputValue)

\* onClick of a suggestion chip of a rendered message
ClickChip ==
    \E i \in DOMAIN messages :
        \E j \in DOMAIN messages[i].suggestions :
            handleSend(messages[i].suggestions[j])

\* handleSend after its await: the fetch of call r.req settled with outcome o
Receive(r, o) ==
    /\ r \in inflight
    /\ inflight' = inflight \ {r}
    /\ fetches' = [fetches EXCEPT ![r.req] = Append(@, o.kind)]
    /\ isLoading' = FALSE
    /\ messages' = Append(messages,
           [sender |-> "bot", req |-> r.req] @@ BotResponseOf(o))
    /\ UNCHANGED inputValue
    /\ UNCHANGED <<serverVars, pipeVars>>

(***************************************************************************)
(* Initial states and specifications.                                      *)
(***************************************************************************)
\* the server listens: a handler of V serves, the credentials are those of E
ServerStart(V, E) ==
    /\ variant \in V
    /\ env \in E
    /\ query = Undefined
    /\ includeImage = "undefined"
    /\ pc = "listening"
    /\ geoData = NoGeo
    /\ fetchedAQI = NoSnapshot
    /\ parsed = NoParse
    /\ searchTerm = Undefined
    /\ calls = <<>>
    /\ responses = <<>>

\* whether WEATHER_API_KEY and PEXELS_API_KEY are set
Environments == [weather : BOOLEAN, pexels : BOOLEAN]

AllKeys == {[weather |-> TRUE, pexels |-> TRUE]}

\* App's useState initial values
ClientStart ==
    /\ messages = <<Greeting>>
    /\ isLoading = FALSE
    /\ inputValue = <<>>
    /\ inflight = {}
    /\ fetches = [n \in 1..MaxSends |-> <<>>]

PipeIdle ==
    /\ emitted = NoOutput
    /\ wire = NoWire
    /\ shown = NoShown

\* one request served by either handler
Init ==
    /\ ServerStart(Variants, Environments)
    /\ PipeIdle
    /\ ClientStart

Next ==
    \/ \E q \in Queries, inc \in IncludeImageValues : Post(q, inc)
    \/ \E g \in GeoOutcomes : GeoReturn(g)
    \/ \E a \in AqOutcomes : AqReturn(a)
    \/ \E l \in LlmOutcomes : LlmReturn(l)
    \/ \E i \in ImgOutcomes : ImgReturn(i)

Spec == Init /\ [][Next]_vars

\* one request served by the handler of server.js
InitServer ==
    /\ ServerStart({"keyword"}, Environments)
    /\ PipeIdle
    /\ ClientStart

SpecServer == InitServer /\ [][Next]_vars

\* a model output through the parse of server.js and the parse of App.jsx
InitPipe ==
    /\ ServerStart({"keyword"}, AllKeys)
    /\ emitted \in ModelOutputs
    /\ wire = NoWire
    /\ shown = NoShown
    /\ ClientStart

NextPipe ==
    \/ PipeServer
    \/ PipeClient

SpecPipe == InitPipe /\ [][NextPipe]_vars

\* the chat client against a server that answers each fetch in any way
InitClient ==
    /\ ServerStart({"keyword"}, AllKeys)
    /\ PipeIdle
    /\ ClientStart

NextClient ==
    \/ \E v \in InputTexts : SetInput(v)
    \/ Submit
    \/ ClickChip
    \/ \E r \in inflight, o \in FetchOutcomes : Receive(r, o)

SpecClient == InitClient /\ [][NextClient]_vars

(***************************************************************************)
(* Properties of one request.                                              *)
(***************************************************************************)
Called(c, e) == {j \in DOMAIN calls : calls[j].call = c /\ calls[j].ev = e}

LlmFailed == \E j \in Called("llm", "end") : calls[j].result # "ok"
LlmOk     == \E j \in Called("llm", "end") : calls[j].result = "ok"
ImgCalled == Called("img", "call") # {}

Answered(st) == responses # <<>> /\ responses[1].status = st

\* C1: whatever the geocoding, air-quality and image-search calls do, a
\* request with a non-empty query ends with HTTP 500 only when the model call
\* itself failed, and ends with the success response when the model call
\* succeeded.
C1_OnlyModelFailureIsFatal ==
    /\ Answered(500) => LlmFailed
    /\ (pc = "done" /\ query \notin {Undefined, <<>>} /\ ~LlmFailed)
           => Answered(200)

\* C2: a request whose query is missing or empty is answered with HTTP 400
\* {error: "Query is required"}, issues no upstream call at all and sends
\* nothing after that response.
C2_MissingQueryIs400 ==
    (pc # "listening" /\ query \in {Undefined, <<>>})
        => /\ pc = "done"
           /\ responses = <<Reply400>>
           /\ calls = <<>>
           /\ searchTerm = Undefined

C2_Witness ==
    /\ pc = "done"
    /\ query = <<>>
    /\ includeImage = "true"
    /\ responses = <<Reply400>>

\* C3 as stated: in every finished request that passed validation an
\* image-search call was issued if and only if includeImage is true or a
\* snapshot was obtained.
C3_ImageCallIffRequested ==
    (pc = "done" /\ query \notin {Undefined, <<>>})
        => (ImgCalled <=> (includeImage = "true" \/ fetchedAQI.got))

\* C3 amended: in a request answered with the success response the
\* image-search helper was called if and only if includeImage is true or a
\* snapshot was obtained; a request answered with 400 or 500 made no
\* image-search call; and without a call the success response carries
\* image: null.
C3_ImageCallIffRequestedOnSuccess ==
    /\ ImgCalled => (includeImage = "true" \/ fetchedAQI.got)
    /\ (pc = "done" /\ Answered(200))
           => (ImgCalled <=> (includeImage = "true" \/ fetchedAQI.got))
    /\ (pc = "done" /\ Answered(200) /\ ~ImgCalled) => responses[1].image = "null"
    /\ (pc = "done" /\ ~Answered(200)) => ~ImgCalled

C3_Witness ==
    /\ pc = "done"
    /\ Answered(200)
    /\ includeImage = "false"
    /\ fetchedAQI.got
    /\ ImgCalled
    /\ responses[1].image = ImageUrl

\* C4: in one request served by server.js the air-quality call starts only
\* after the geocoding call returned a non-empty result; the model call
\* starts only after the air-quality lookup, if any, has finished; parsing
\* comes only after the model call has completed; the image search only
\* after parsing; and no response other than the 400 is sent before the
\* model call has completed.
C4_UpstreamCallsAreOrdered ==
    /\ \A i \in Called("aq", "start") :
           \E j \in Called("geo", "end") : j < i /\ calls[j].result = "hit"
    /\ \A i \in Called("llm", "start") :
           /\ \A j \in Called("geo", "start") :
                  /\ j < i
                  /\ \E k \in Called("geo", "end") : j < k /\ k < i
           /\ \A j \in Called("aq", "start") :
                  /\ j < i
                  /\ \E k \in Called("aq", "end") : j < k /\ k < i
           /\ \A k \in Called("geo", "end") \cup Called("aq", "end") : k < i
    /\ \A i \in Called("parse", "end") :
           \E j \in Called("llm", "end") : j < i /\ calls[j].result = "ok"
    /\ \A i \in Called("img", "call") \cup Called("img", "start") :
           \E j \in Called("parse", "end") : j < i
    /\ (responses # <<>> /\ ~Answered(400)) => Called("llm", "end") # {}
    /\ Len(responses) <= 1

C4_Witness ==
    /\ pc = "done"
    /\ Answered(200)
    /\ Called("aq", "end") # {}
    /\ Called("parse", "end") # {}
    /\ Called("img", "end") # {}
    /\ fetchedAQI.got
    /\ fetchedAQI.components = "absent"

\* C8: the term sent to the image search is never the empty string: the
\* cleaned term of the earlier handler falls back to the uncleaned term when
\* no word is left, and the keyword of server.js defaults to "Nature".
C8_SearchTermNeverEmpty ==
    pc = "img" => searchTerm # <<>>

(***************************************************************************)
(* Properties of the text pipeline.                                        *)
(***************************************************************************)
\* the suggestions as the model emitted them, outer white space apart
TrimmedSugs == [i \in DOMAIN emitted.sugs |-> Trim(emitted.sugs[i])]

\* C5: for every model output the answer text the handler puts before the
\* delimiter is non-empty, and it is the apology whenever segment 0 is empty
\* after trimming.
C5_AnswerNeverEmpty ==
    wire.sent =>
        /\ wire.textResponse # <<>>
        /\ wire.response = wire.textResponse \o Delim \o wire.suggestionsRaw
        /\ Trim(Split(emitted.text, Delim)[1]) = <<>> => wire.textResponse = Apology

\* C6 as stated: for the three-segment and for the two-segment form alike
\* the response text is the answer, the delimiter and the pipe-joined
\* suggestions, and the client recovers the model's suggestions in order.
C6_SuggestionsSurviveBothForms ==
    (shown.ready /\ emitted.form \in {"three", "two"}) =>
        /\ wire.response = Trim(emitted.answer) \o Delim
                              \o Trim(Join(emitted.sugs, Pipe))
        /\ shown.suggestions = TrimmedSugs

\* C6 amended: for the three-segment form answer||keyword||s1|...|sn the
\* response text of server.js is the trimmed answer, the delimiter and the
\* pipe-joined suggestions, and the client recovers the answer and the
\* suggestions in order; for the two-segment form answer||s1|...|sn server.js
\* drops the suggestions: the response text is the trimmed answer and the
\* delimiter, and the client recovers no suggestion.
C6_SuggestionsSurviveThreeSegments ==
    /\ (shown.ready /\ emitted.form = "three") =>
           /\ wire.response = Trim(emitted.answer) \o Delim
                                 \o Trim(Join(emitted.sugs, Pipe))
           /\ shown.text = Trim(emitted.answer)
           /\ shown.suggestions = TrimmedSugs
    /\ (shown.ready /\ emitted.form = "two") =>
           /\ wire.response = Trim(emitted.answer) \o Delim
           /\ shown.text = Trim(emitted.answer)
           /\ shown.suggestions = <<>>

C6_Witness ==
    /\ shown.ready
    /\ emitted.form = "three"
    /\ Len(emitted.sugs) = 2
    /\ emitted.sugs[1] # emitted.sugs[2]
    /\ emitted.sugs[1] # Trim(emitted.sugs[1])
    /\ shown.suggestions = TrimmedSugs

\* C7: for every model output without the delimiter the whole trimmed text
\* (the apology for an empty output) is the answer, the response is that
\* answer followed by the delimiter and nothing else, and the client derives
\* an empty suggestion sequence from it.
C7_NoDelimiterNoSuggestions ==
    (shown.ready /\ Len(Split(emitted.text, Delim)) = 1) =>
        /\ wire.textResponse = IF emitted.text = <<>> THEN Apology
                               ELSE Trim(emitted.text)
        /\ wire.response = wire.textResponse \o Delim
        /\ shown.suggestions = <<>>

(***************************************************************************)
(* Properties of the chat client.                                          *)
(***************************************************************************)
BotMessages == {i \in DOMAIN messages : messages[i].sender = "bot" /\ messages[i].req # 0}

C10_LoadingIffInFlight ==
    isLoading <=> inflight # {}


\* C11: in the message list every user message whose request has settled is
\* followed by exactly one bot message, and every bot reply stands directly
\* after its own user message, so that the replies keep the order of the
\* user messages and no user message comes between a message and its reply.
C11_ReplyDirectlyAfterItsMessage ==
    /\ \A n \in Started :
           LET replies == {i \in BotMessages : messages[i].req = n} IN
           IF \E r \in inflight : r.req = n
           THEN replies = {}
           ELSE Cardinality(replies) = 1
    /\ \A i \in BotMessages :
           /\ messages[i - 1].sender = "user"
           /\ messages[i - 1].req = messages[i].req

====
